---- MODULE Spec2Model ----
(***************************************************************************)
(* Model of @kt3k/signal: the Signal and GroupSignal classes (value +     *)
(* handler array, update / onChange / subscribe / map) as a state machine. *)
(*                                                                         *)
(* Handlers run synchronously inside update, and a handler may itself call *)
(* any method of a signal.  The call stack is therefore explicit: a frame  *)
(* per running Array.prototype.forEach (kind "emit") and per immediate     *)
(* call made by subscribe (kind "sub").  An operation may be called by the *)
(* top-level program (empty stack) or by the handler that is running on    *)
(* top of the stack.                                                       *)
(***************************************************************************)
EXTENDS Integers, Sequences, FiniteSets, TLC

\* ---------------------------------------------------------------- bounds
\* Signal values are the numbers 0..MaxVal.
MaxVal == 1
\* At most MaxRegs registrations (onChange / subscribe / map) are made.
MaxRegs == 3
\* At most MaxDepth frames are on the call stack.
MaxDepth == 3
\* At most MaxOps method calls are made by the program and its handlers.
MaxOps == 5
\* A signal that is mapped is given the values 0..MaxSrcVal.
MaxSrcVal == 2

\* ------------------------------------------------------------ vocabulary
\* "s" is the Signal the program creates, "t" is s.map(fn) once map is called;
\* "g" is the GroupSignal the program creates, "u" is g.map(fn).
Sigs == {"s", "t"}
GroupSigs == {"g", "u"}
AllSigs == Sigs \cup GroupSigs
IsGroup(sig) == sig \in GroupSigs
IsDerived(sig) == sig \in {"t", "u"}
Derived(sig) == IF sig = "s" THEN "t" ELSE "u"
\* The handler functions the program owns; MapCb is the closure made by map.
CBs == {"c1", "c2"}
MapCb == "mapcb"
NoFn == "none"
\* The pure functions the program may pass to Signal.map.
Fns == {"inc", "half"}
Values == 0..MaxVal
SrcValues == 0..MaxSrcVal

\* An object is a function from the key names to a field value, or to Absent
\* for a key the object does not have; reading a key that an object does not
\* have gives undefined, which is Absent too.
Keys == {"x", "y"}
FieldVals == {0, 1}
Absent == -1
Objs == [Keys -> FieldVals \cup {Absent}]
NoKeys == [k \in Keys |-> Absent]
\* The arguments the program gives to GroupSignal.update: objects, null, a number.
\* ref names the instance: "lit" is an object literal made for the call.
ObjArg(o) == [tag |-> "object", obj |-> o, ref |-> "lit"]
NullArg == [tag |-> "null", obj |-> NoKeys, ref |-> "lit"]
NumberArg == [tag |-> "number", obj |-> NoKeys, ref |-> "lit"]
GroupArgs == {ObjArg(o) : o \in Objs} \cup {NullArg, NumberArg}
\* The value groupSignal is created with.
InitObj == [k \in Keys |-> 0]
\* The pure functions the program may pass to GroupSignal.map.
GroupFns == {"swap", "compact"}

VARIABLES
  val,          \* val[sig]: #val of each signal
  handlers,     \* handlers[sig]: #handlers, a sequence of [cb, reg]
  fnOf,         \* the fn given to s.map, NoFn before map is called
  stack,        \* the call stack, innermost frame last
  nextReg,      \* history: number of the next registration
  regs,         \* history: regs[r] = [sig, cb, kind] of registration r
  unsubCalled,  \* history: registrations whose unsubscribe function was called
  lastOp,       \* history: the step taken last
  ops,          \* history: number of method calls made so far
  heap,         \* heap.o: the fields of an object o the program keeps;
                \* heap.ref[sig]: the instance #val of a GroupSignal is
  seen          \* history: seen[sig][cb] = whether cb was ever called by
                \* sig, and the value it was called with last

vars == <<val, handlers, fnOf, stack, nextReg, regs, unsubCalled, lastOp, ops, heap,
          seen>>

\* The object o of the program, given to update as it is.
OwnArg == [tag |-> "object", obj |-> heap.o, ref |-> "o"]

\* ------------------------------------------------------- array primitives
\* Array.prototype.indexOf on the handler array: 0-based, -1 when absent.
IndexOf(hs, cb) ==
  IF \E i \in 1..Len(hs) : hs[i].cb = cb
  THEN (CHOOSE i \in 1..Len(hs) :
          hs[i].cb = cb /\ \A j \in 1..(i - 1) : hs[j].cb # cb) - 1
  ELSE -1

\* The value of (-1 >>> 0).  It is 2^32 - 1; the model checker's integers are
\* 32-bit signed, so it is represented by the largest of them: all that
\* splice reads of it is that it is not below the array's length.
Uint32OfMinusOne == 2147483647

\* n >>> 0 for the results of indexOf.
ToUint32(n) == IF n >= 0 THEN n ELSE Uint32OfMinusOne

\* Array.prototype.splice(start, deleteCount) with start >= 0: the array after.
Splice(hs, start, deleteCount) ==
  LET actualStart == IF start < Len(hs) THEN start ELSE Len(hs)
      room        == Len(hs) - actualStart
      del         == IF deleteCount < room THEN deleteCount ELSE room
  IN  SubSeq(hs, 1, actualStart) \o SubSeq(hs, actualStart + del + 1, Len(hs))

\* Mutant: unshift in place of push.
Push_Front(hs, e) == <<e>> \o hs

\* Array.prototype.push.
Push(hs, e) == Append(hs, e)

\* The body of the function onChange returns.
RemoveHandler(hs, cb) == Splice(hs, ToUint32(IndexOf(hs, cb)), 1)

\* o.k ?? 0
FieldOr0(o, k) == IF o[k] = Absent THEN 0 ELSE o[k]

\* fn(x) for the functions of Fns and GroupFns:
\*   inc     (x) => x + 1
\*   half    (x) => Math.floor(x / 2)
\*   swap    (o) => ({ x: o.y ?? 0, y: o.x ?? 0 })
\*   compact (o) => o.y ? { x: o.x ?? 0, y: o.y } : { x: o.x ?? 0 }
FnApply(f, x) ==
  CASE f = "inc"     -> x + 1
    [] f = "half"    -> x \div 2
    [] f = "swap"    -> [k \in Keys |-> IF k = "x" THEN FieldOr0(x, "y")
                                                  ELSE FieldOr0(x, "x")]
    [] f = "compact" -> [k \in Keys |-> IF k = "x" THEN FieldOr0(x, "x")
                                        ELSE IF FieldOr0(x, "y") = 0 THEN Absent
                                        ELSE x[k]]

\* ------------------------------------------------------------ call stack
Top == stack[Len(stack)]

\* The program, or the handler now running, may call a method.
CanCall == IF stack = <<>> THEN TRUE ELSE Top.run = "user"

\* The calls of subscribe that are still to register their handler.
Pending == Cardinality({n \in 1..Len(stack) : stack[n].kind = "sub"})

\* A registration can still be made within the bound.
CanRegister == nextReg + Pending <= MaxRegs

\* Mutant: forEach stops one element early.
EmitFrame_SkipLast(sig, v) ==
  [kind |-> "emit", sig |-> sig, i |-> 1,
   len |-> IF handlers[sig] = <<>> THEN 0 ELSE Len(handlers[sig]) - 1,
   value |-> v, old |-> val[sig], run |-> "no", cb |-> "-",
   start |-> handlers[sig],
   calls |-> <<>>, unsubbed |-> FALSE, reupdated |-> FALSE]

\* A frame of update's forEach over handlers[sig]: i is the next index (from
\* 1), len the length read when forEach began, value the argument of update.
\* old, start, calls, unsubbed and reupdated are history: the value update
\* replaced, the handler array when the cycle began, the calls made so far,
\* and whether an unsubscribe function or update of the same signal was
\* called during the cycle.
EmitFrame(sig, v) ==
  [kind |-> "emit", sig |-> sig, i |-> 1, len |-> Len(handlers[sig]),
   value |-> v, old |-> val[sig], run |-> "no", cb |-> "-",
   start |-> handlers[sig],
   calls |-> <<>>, unsubbed |-> FALSE, reupdated |-> FALSE]

\* Mutant: subscribe delivers the value to every handler registered.
SubFrame_AllHandlers(sig, cb) == EmitFrame(sig, val[sig])

\* A frame of subscribe: cb(this.#val) is running, onChange(cb) is still to come.
SubFrame(sig, cb) ==
  [kind |-> "sub", sig |-> sig, i |-> 1, len |-> 0,
   value |-> val[sig], old |-> val[sig], run |-> "user", cb |-> cb,
   start |-> handlers[sig],
   calls |-> <<[cb |-> cb, reg |-> 0, v |-> val[sig]]>>,
   unsubbed |-> FALSE, reupdated |-> FALSE]

Mark(st, sig, field) ==
  [n \in 1..Len(st) |->
     IF st[n].kind = "emit" /\ st[n].sig = sig
     THEN IF field = "unsubbed" THEN [st[n] EXCEPT !.unsubbed = TRUE]
                                ELSE [st[n] EXCEPT !.reupdated = TRUE]
     ELSE st[n]]

Op(name, sig, arg) == [op |-> name, sig |-> sig, arg |-> arg, err |-> FALSE]

\* The frame on top has visited every index and no handler of it is running.
Finished(f) == f.kind = "emit" /\ f.run = "no" /\ f.i > f.len

\* --------------------------------------------------------------- Signal
\* Mutant: update without the !== test.
SignalUpdate_NoCompare(st, sig, v) ==
  /\ val' = [val EXCEPT ![sig] = v]
  /\ stack' = Append(Mark(st, sig, "reupdated"), EmitFrame(sig, v))
  /\ heap' = heap

\* Signal.update(value): compare with !==, store, forEach over #handlers.
SignalUpdate(st, sig, v) ==
  /\ heap' = heap
  /\ IF val[sig] # v
     THEN /\ val' = [val EXCEPT ![sig] = v]
          /\ stack' = Append(Mark(st, sig, "reupdated"), EmitFrame(sig, v))
     ELSE /\ val' = val
          /\ stack' = st

\* ---------------------------------------------------------- GroupSignal
\* typeof value
TypeOf(x) == IF x.tag = "number" THEN "number" ELSE "object"

\* Mutant: the test for null is missing.
GroupThrows_TypeofOnly(x) == TypeOf(x) # "object"

\* GroupSignal.update throws "value must be an object".
GroupThrows(x) == TypeOf(x) # "object" \/ x.tag = "null"

\* Object.keys(value)
ObjectKeys(o) == {k \in Keys : o[k] # Absent}

\* Mutant: the keys of the current value are compared as well.
FieldDiffers_AllKeys(old, new) == \E k \in Keys : old[k] # new[k]

\* Some key of the new value holds another value in the current one.
FieldDiffers(old, new) == \E k \in ObjectKeys(new) : old[k] # new[k]

\* { ...value }
ShallowCopy(o) == [k \in Keys |-> o[k]]

\* Mutant: the argument itself is stored.
StoredInstance_Same(x) == x.ref

\* The instance { ...value } evaluates to: a new object.
StoredInstance(x) == "copy"

\* GroupSignal.update(value): throw on a non-object; at the first key of value
\* that differs store a copy of value and run forEach over #handlers.
GroupUpdate(st, sig, x) ==
  IF ~GroupThrows(x) /\ FieldDiffers(val[sig], x.obj)
  THEN /\ val' = [val EXCEPT ![sig] = ShallowCopy(x.obj)]
       /\ heap' = [heap EXCEPT !.ref[sig] = StoredInstance(x)]
       /\ stack' = Append(Mark(st, sig, "reupdated"),
                          EmitFrame(sig, ShallowCopy(x.obj)))
  ELSE /\ val' = val
       /\ heap' = heap
       /\ stack' = st

\* The room a call of update needs on the stack: its own forEach and, on a
\* mapped signal, the forEach of the derived signal.
Room(sig) == IF ~IsDerived(sig) /\ fnOf # NoFn THEN 2 ELSE 1

Update(sig, v) ==
  /\ CanCall
  /\ ops < MaxOps
  /\ IsDerived(sig) => fnOf # NoFn
  /\ Len(stack) + Room(sig) <= MaxDepth
  /\ IF IsGroup(sig) THEN GroupUpdate(stack, sig, v) ELSE SignalUpdate(stack, sig, v)
  /\ lastOp' = [Op("update", sig, v) EXCEPT !.err = IsGroup(sig) /\ GroupThrows(v)]
  /\ ops' = ops + 1
  /\ UNCHANGED <<seen, handlers, fnOf, nextReg, regs, unsubCalled>>

\* Signal.onChange(cb): push cb; the function returned is Unsubscribe(r).
Register(sig, cb, kind) ==
  /\ handlers' = [handlers EXCEPT ![sig] = Push(@, [cb |-> cb, reg |-> nextReg])]
  /\ regs' = Append(regs, [sig |-> sig, cb |-> cb, kind |-> kind])
  /\ nextReg' = nextReg + 1

OnChange(sig, cb) ==
  /\ CanCall
  /\ ops < MaxOps
  /\ CanRegister
  /\ IsDerived(sig) => fnOf # NoFn
  /\ Register(sig, cb, "onChange")
  /\ lastOp' = Op("onChange", sig, cb)
  /\ ops' = ops + 1
  /\ UNCHANGED <<seen, heap, val, fnOf, stack, unsubCalled>>

\* The function returned by onChange / subscribe for registration r.
Unsubscribe(r) ==
  /\ CanCall
  /\ ops < MaxOps
  /\ r \in 1..Len(regs)
  /\ regs[r].kind # "map"
  /\ LET sig == regs[r].sig IN
       /\ handlers' = [handlers EXCEPT ![sig] = RemoveHandler(@, regs[r].cb)]
       /\ stack' = Mark(stack, sig, "unsubbed")
       /\ lastOp' = Op("unsubscribe", sig, r)
  /\ unsubCalled' = unsubCalled \cup {r}
  /\ ops' = ops + 1
  /\ UNCHANGED <<seen, heap, val, fnOf, nextReg, regs>>

\* Signal.subscribe(cb), first half: cb(this.#val) is called.
Subscribe(sig, cb) ==
  /\ CanCall
  /\ ops < MaxOps
  /\ CanRegister
  /\ IsDerived(sig) => fnOf # NoFn
  /\ Len(stack) + 1 <= MaxDepth
  /\ stack' = Append(stack, SubFrame(sig, cb))
  /\ seen' = [seen EXCEPT ![sig][cb] = [has |-> TRUE, v |-> val[sig]]]
  /\ lastOp' = Op("subscribe", sig, cb)
  /\ ops' = ops + 1
  /\ UNCHANGED <<heap, val, handlers, fnOf, nextReg, regs, unsubCalled>>

\* Signal.subscribe(cb), second half: cb has returned, return this.onChange(cb).
SubscribeReturn ==
  /\ stack # <<>>
  /\ Top.kind = "sub"
  /\ Register(Top.sig, Top.cb, "subscribe")
  /\ stack' = SubSeq(stack, 1, Len(stack) - 1)
  /\ lastOp' = Op("subscribed", Top.sig, Top.cb)
  /\ UNCHANGED <<seen, heap, val, fnOf, unsubCalled, ops>>

\* map(fn): new Signal(fn(this.#val)), then onChange of the closure.
Map(sig, f) ==
  /\ CanCall
  /\ ops < MaxOps
  /\ CanRegister
  /\ fnOf = NoFn
  /\ val' = [val EXCEPT ![Derived(sig)] = FnApply(f, val[sig])]
  /\ fnOf' = f
  /\ Register(sig, MapCb, "map")
  /\ lastOp' = Op("map", sig, f)
  /\ ops' = ops + 1
  /\ UNCHANGED <<seen, heap, stack, unsubCalled>>

\* get(): return this.#val.
Get(sig) ==
  /\ CanCall
  /\ ops < MaxOps
  /\ IsDerived(sig) => fnOf # NoFn
  /\ lastOp' = Op("get", sig, val[sig])
  /\ ops' = ops + 1
  /\ UNCHANGED <<seen, heap, val, handlers, fnOf, stack, nextReg, regs, unsubCalled>>

\* ------------------------------------------------------------- delivery
\* The frame on top with its next index advanced and the call recorded.
Called(f, e, v) ==
  [f EXCEPT !.i = f.i + 1,
            !.calls = Append(f.calls, [cb |-> e.cb, reg |-> e.reg, v |-> v])]

\* The argument forEach's callback gives the handler: Signal passes the
\* parameter of update, GroupSignal reads this.#val at each call.
Delivered(f) == IF IsGroup(f.sig) THEN val[f.sig] ELSE f.value

\* forEach calls the handler at the next index: a handler of the program starts
\* running; the closure of map runs signal.update(fn(val)) on the derived signal.
Invoke ==
  /\ stack # <<>>
  /\ Top.kind = "emit" /\ Top.run = "no"
  /\ Top.i <= Top.len
  /\ Top.i <= Len(handlers[Top.sig])
  /\ LET f    == Top
         e    == handlers[f.sig][f.i]
         v    == Delivered(f)
         rest == SubSeq(stack, 1, Len(stack) - 1)
     IN  /\ lastOp' = Op("invoke", f.sig, e.reg)
         /\ IF e.cb = MapCb
            THEN LET st == Append(rest, [Called(f, e, v) EXCEPT !.run = "map"]) IN
                   IF IsGroup(f.sig)
                   THEN GroupUpdate(st, Derived(f.sig), ObjArg(FnApply(fnOf, v)))
                   ELSE SignalUpdate(st, Derived(f.sig), FnApply(fnOf, v))
            ELSE /\ stack' = Append(rest, [Called(f, e, v) EXCEPT !.run = "user"])
                 /\ val' = val
                 /\ heap' = heap
         /\ seen' = IF e.cb = MapCb
                    THEN seen
                    ELSE [seen EXCEPT ![f.sig][e.cb] = [has |-> TRUE, v |-> v]]
  /\ UNCHANGED <<handlers, fnOf, nextReg, regs, unsubCalled, ops>>

\* signal.update(fn(val)) has returned: the closure of map returns to forEach.
MapReturn ==
  /\ stack # <<>>
  /\ Top.kind = "emit" /\ Top.run = "map"
  /\ stack' = [stack EXCEPT ![Len(stack)].run = "no"]
  /\ lastOp' = Op("return", Top.sig, 0)
  /\ UNCHANGED <<seen, heap, val, handlers, fnOf, nextReg, regs, unsubCalled, ops>>

\* forEach finds no element at the next index (the array got shorter): it moves on.
SkipAbsent ==
  /\ stack # <<>>
  /\ Top.kind = "emit" /\ Top.run = "no"
  /\ Top.i <= Top.len
  /\ Top.i > Len(handlers[Top.sig])
  /\ stack' = [stack EXCEPT ![Len(stack)].i = @ + 1]
  /\ lastOp' = Op("skip", Top.sig, Top.i)
  /\ UNCHANGED <<seen, heap, val, handlers, fnOf, nextReg, regs, unsubCalled, ops>>

\* The handler running on top returns to forEach.
HandlerReturn ==
  /\ stack # <<>>
  /\ Top.kind = "emit" /\ Top.run = "user"
  /\ stack' = [stack EXCEPT ![Len(stack)].run = "no"]
  /\ lastOp' = Op("return", Top.sig, 0)
  /\ UNCHANGED <<seen, heap, val, handlers, fnOf, nextReg, regs, unsubCalled, ops>>

\* forEach is over and update returns to its caller.
UpdateReturn ==
  /\ stack # <<>>
  /\ Finished(Top)
  /\ stack' = SubSeq(stack, 1, Len(stack) - 1)
  /\ lastOp' = Op("returned", Top.sig, Top.value)
  /\ UNCHANGED <<seen, heap, val, handlers, fnOf, nextReg, regs, unsubCalled, ops>>

\* The stack after an exception leaves the frame on top: forEach and update
\* have no try/catch, so the frame is dropped, and so is every frame below it
\* whose running handler is the closure of map, which has none either.
RECURSIVE Unwind(_)
Unwind(st) ==
  LET rest == SubSeq(st, 1, Len(st) - 1) IN
    IF rest # <<>> /\ rest[Len(rest)].run = "map" THEN Unwind(rest) ELSE rest

\* The handler running on top throws: the exception leaves forEach and update
\* (or subscribe, before its onChange) and reaches the caller, the program or
\* the handler below, which may catch it and go on or throw in its turn.
Throw ==
  /\ stack # <<>>
  /\ Top.run = "user"
  /\ stack' = Unwind(stack)
  /\ lastOp' = [Op("throw", Top.sig, Top) EXCEPT !.err = TRUE]
  /\ UNCHANGED <<seen, heap, val, handlers, fnOf, nextReg, regs, unsubCalled, ops>>

\* The program (or a handler) assigns o[k] = v on its object o.  A signal
\* whose #val is that very instance shows the assignment in get().
Mutate(k, v) ==
  /\ CanCall
  /\ heap.o[k] # v
  /\ heap' = [heap EXCEPT !.o[k] = v]
  /\ val' = [sig \in AllSigs |->
               IF IsGroup(sig) /\ heap.ref[sig] = "o"
               THEN [val[sig] EXCEPT ![k] = v]
               ELSE val[sig]]
  /\ lastOp' = Op("mutate", "g", k)
  /\ UNCHANGED <<seen, handlers, fnOf, stack, nextReg, regs, unsubCalled, ops>>

\* ------------------------------------------------------- specification
\* new Signal(0) and new GroupSignal({ x: 0, y: 0 }): the value given, no handler.
\* The object o of the program is {} at first.
Init ==
  /\ val = [sig \in AllSigs |-> IF IsGroup(sig) THEN InitObj ELSE 0]
  /\ handlers = [sig \in AllSigs |-> <<>>]
  /\ fnOf = NoFn
  /\ stack = <<>>
  /\ nextReg = 1
  /\ regs = <<>>
  /\ unsubCalled = {}
  /\ lastOp = Op("new", "s", 0)
  /\ ops = 0
  /\ heap = [o |-> NoKeys, ref |-> [sig \in GroupSigs |-> "init"]]
  /\ seen = [sig \in AllSigs |->
              [cb \in CBs |->
                 [has |-> FALSE, v |-> IF IsGroup(sig) THEN InitObj ELSE 0]]]

\* The program works on one Signal, s.
Next ==
  \/ \E v \in Values : Update("s", v)
  \/ \E cb \in CBs : OnChange("s", cb)
  \/ \E cb \in CBs : Subscribe("s", cb)
  \/ SubscribeReturn
  \/ \E r \in 1..MaxRegs : Unsubscribe(r)
  \/ Invoke
  \/ SkipAbsent
  \/ HandlerReturn
  \/ UpdateReturn

Spec == Init /\ [][Next]_vars

\* The program also derives t = s.map(fn) and registers handlers on both; it
\* updates s only, t is updated by the closure of map.
NextMap ==
  \/ \E f \in Fns : Map("s", f)
  \/ \E v \in SrcValues : Update("s", v)
  \/ \E sig \in Sigs, cb \in CBs : OnChange(sig, cb)
  \/ \E cb \in CBs : Subscribe("s", cb)
  \/ SubscribeReturn
  \/ \E r \in 1..MaxRegs : Unsubscribe(r)
  \/ Invoke
  \/ SkipAbsent
  \/ MapReturn
  \/ HandlerReturn
  \/ UpdateReturn

SpecMap == Init /\ [][NextMap]_vars

\* The program works on one GroupSignal, g.
NextGroup ==
  \/ \E x \in GroupArgs : Update("g", x)
  \/ \E cb \in CBs : OnChange("g", cb)
  \/ \E r \in 1..MaxRegs : Unsubscribe(r)
  \/ Invoke
  \/ SkipAbsent
  \/ HandlerReturn
  \/ UpdateReturn

SpecGroup == Init /\ [][NextGroup]_vars

\* The program also derives u = g.map(fn) and registers handlers on both; it
\* updates g only, with objects.
NextGroupMap ==
  \/ \E f \in GroupFns : Map("g", f)
  \/ \E o \in Objs : Update("g", ObjArg(o))
  \/ \E sig \in GroupSigs, cb \in CBs : OnChange(sig, cb)
  \/ \E r \in 1..MaxRegs : Unsubscribe(r)
  \/ Invoke
  \/ SkipAbsent
  \/ MapReturn
  \/ HandlerReturn
  \/ UpdateReturn

SpecGroupMap == Init /\ [][NextGroupMap]_vars

\* The program works on one Signal, s, and its handlers may throw.
NextThrow ==
  \/ \E v \in Values : Update("s", v)
  \/ \E cb \in CBs : OnChange("s", cb)
  \/ \E cb \in CBs : Subscribe("s", cb)
  \/ SubscribeReturn
  \/ \E r \in 1..MaxRegs : Unsubscribe(r)
  \/ Invoke
  \/ SkipAbsent
  \/ HandlerReturn
  \/ UpdateReturn
  \/ Throw

SpecThrow == Init /\ [][NextThrow]_vars

\* The program works on one GroupSignal, g, which it updates with its object
\* o, and it assigns to the fields of o between and during the updates.
NextGroupObj ==
  \/ Update("g", OwnArg)
  \/ \E k \in Keys, v \in FieldVals : Mutate(k, v)
  \/ \E cb \in CBs : OnChange("g", cb)
  \/ Invoke
  \/ HandlerReturn
  \/ UpdateReturn

SpecGroupObj == Init /\ [][NextGroupObj]_vars

\* The program works on a Signal s, on t = s.map(fn) and on a GroupSignal g
\* with every method of the two classes; it updates g with { x: v }.
ApiSigs == {"s", "t", "g"}
OnlyX(v) == [k \in Keys |-> IF k = "x" THEN v ELSE Absent]

NextApi ==
  \/ \E sig \in ApiSigs : Get(sig)
  \/ \E f \in Fns : Map("s", f)
  \/ \E v \in Values : Update("s", v)
  \/ \E v \in FieldVals : Update("g", ObjArg(OnlyX(v)))
  \/ \E sig \in ApiSigs, cb \in CBs : OnChange(sig, cb)
  \/ \E sig \in ApiSigs, cb \in CBs : Subscribe(sig, cb)
  \/ SubscribeReturn
  \/ \E r \in 1..MaxRegs : Unsubscribe(r)
  \/ Invoke
  \/ SkipAbsent
  \/ MapReturn
  \/ HandlerReturn
  \/ UpdateReturn

SpecApi == Init /\ [][NextApi]_vars

\* =========================================================== properties
\* The number of calls of registration r recorded in a cycle.
Count(calls, r) == Cardinality({n \in 1..Len(calls) : calls[n].reg = r})

\* The entry is in the handler array of the signal.
StillRegistered(sig, e) ==
  \E n \in 1..Len(handlers[sig]) : handlers[sig][n].reg = e.reg

\* The step taken is a call of the method `name` (every call counts in ops).
IsCall(name) == lastOp'.op = name /\ ops' = ops + 1

\* The cycle on top of the stack is over: update is about to return.
CycleOver == IF stack = <<>> THEN FALSE ELSE Finished(Top)

\* No handler called update or an unsubscribe function of the signal during
\* the cycle on top of the stack.
Undisturbed == ~Top.unsubbed /\ ~Top.reupdated

\* ------------------------------------------------------------------ C1
\* One call per handler registered when the cycle began, in their order,
\* each with the value given to update.
C1_AllCalledOnce(f) ==
  f.calls = [n \in 1..Len(f.start) |->
               [cb |-> f.start[n].cb, reg |-> f.start[n].reg, v |-> f.value]]

C1_CycleOver ==
  (CycleOver /\ Undisturbed) => (val[Top.sig] = Top.value /\ C1_AllCalledOnce(Top))

C1_UpdateStep ==
  (IsCall("update") /\ lastOp'.arg # val[lastOp'.sig])
    => /\ val'[lastOp'.sig] = lastOp'.arg
       /\ Len(stack') = Len(stack) + 1
       /\ stack'[Len(stack')].kind = "emit"
       /\ stack'[Len(stack')].value = lastOp'.arg
       /\ stack'[Len(stack')].start = handlers[lastOp'.sig]
       /\ stack'[Len(stack')].calls = <<>>

\* C1: update(v2) on a Signal holding v1 # v2 stores v2 and starts a cycle over
\* the registered handlers; when update returns and no handler called update or
\* an unsubscribe function meanwhile, get() = v2 and every handler registered
\* has been called exactly once, with v2.
C1_UpdateNotifiesAll == [][C1_UpdateStep]_vars /\ []C1_CycleOver

C1_Witness ==
  /\ CycleOver
  /\ Undisturbed
  /\ Len(Top.start) >= 2
  /\ C1_AllCalledOnce(Top)
  /\ val[Top.sig] = Top.value

\* ------------------------------------------------------------------ C2
\* C2: update(v) with v === get() changes neither the value nor the handler
\* array and starts no cycle (no handler is called), whoever calls it.
C2_NoOpUpdate ==
  [][(IsCall("update") /\ lastOp'.arg = val[lastOp'.sig])
       => (val' = val /\ stack' = stack /\ handlers' = handlers)]_vars

\* update(1) has returned at once on a signal that holds 1 after an earlier
\* change, with two handlers registered.
C2_Witness ==
  /\ lastOp.op = "update"
  /\ stack = <<>>
  /\ lastOp.arg = 1
  /\ val["s"] = 1
  /\ Len(handlers["s"]) >= 2

\* ------------------------------------------------------------------ C3
\* The handler function of registration r was registered only that once.
RegisteredOnce(r) ==
  Cardinality({q \in 1..Len(regs) :
                 regs[q].cb = regs[r].cb /\ regs[q].sig = regs[r].sig}) = 1

\* No call goes to a handler (registered once) whose unsubscribe function was called.
C3_NoCallAfterUnsubscribe ==
  ~(/\ lastOp.op = "invoke"
    /\ lastOp.arg \in unsubCalled
    /\ RegisteredOnce(lastOp.arg))

\* Once an unsubscribe function was called, a cycle still calls every other
\* handler that stays registered exactly once.
C3_OthersCalledOnce ==
  (/\ CycleOver
   /\ \E r \in unsubCalled : RegisteredOnce(r) /\ regs[r].sig = Top.sig)
    => \A n \in 1..Len(Top.start) :
         StillRegistered(Top.sig, Top.start[n])
           => Count(Top.calls, Top.start[n].reg) = 1

\* C3: after the unsubscribe function of cb (registered once) was called, no
\* update calls cb, and every other registered handler is still called exactly
\* once per change.
C3_Original == C3_NoCallAfterUnsubscribe /\ C3_OthersCalledOnce

C5_ImmediateCall ==
  lastOp.op = "subscribe"
    => /\ Top.kind = "sub"
       /\ Top.calls = <<[cb |-> lastOp.arg, reg |-> 0, v |-> val[lastOp.sig]]>>
       /\ Top.start = handlers[lastOp.sig]

\* A handler registered by subscribe that stays registered is called exactly
\* once in a cycle.
C5_CalledOncePerChange ==
  CycleOver
    => \A n \in 1..Len(Top.start) :
         (/\ regs[Top.start[n].reg].kind = "subscribe"
          /\ StillRegistered(Top.sig, Top.start[n]))
           => Count(Top.calls, Top.start[n].reg) = 1

\* C5: subscribe(cb) calls cb once with the current value before it returns,
\* and cb is then called once per change until its unsubscribe function is called.
C5_Original == C5_ImmediateCall /\ C5_CalledOncePerChange

\* ----------------------------------------------------------------- C10
\* C10: a second or later call of an unsubscribe function leaves the handler
\* array as it is.
C10_Original ==
  [][(IsCall("unsubscribe") /\ lastOp'.arg \in unsubCalled)
       => handlers' = handlers]_vars

\* ------------------------------------------------------------------ C8
\* No call of update is in progress.
NoUpdateRunning == \A n \in 1..Len(stack) : stack[n].kind # "emit"

\* The derived signal holds fn of the source's value.
C8_InSync == (fnOf # NoFn /\ NoUpdateRunning) => val["t"] = FnApply(fnOf, val["s"])

\* A cycle of the derived signal calls each of its handlers with the mapped value.
C8_DerivedNotifies ==
  (CycleOver /\ Top.sig = "t" /\ Undisturbed)
    => (Top.value = FnApply(fnOf, stack[Len(stack) - 1].value) /\ C1_AllCalledOnce(Top))

\* C8: for t = s.map(fn), t.get() = fn(s.get()) whenever no update is in
\* progress, whatever is registered, unsubscribed and updated on s (also from
\* inside handlers of s), and each change of the mapped value is delivered to
\* the handlers of t.
C8_Original == C8_InSync /\ C8_DerivedNotifies

\* ------------------------------------------------------------------ C6
\* The step is update(o) on a GroupSignal with an object o.
IsGroupUpdate ==
  IsCall("update") /\ IsGroup(lastOp'.sig) /\ lastOp'.arg.tag = "object"

\* update(o) with every field of o equal to the same field of the current
\* value: no cycle starts and the value stays.
C6_EqualStep ==
  (IsGroupUpdate /\ lastOp'.arg.obj = val[lastOp'.sig])
    => (val' = val /\ stack' = stack)

\* update(o) with a field of o that differs: the value becomes structurally
\* equal to o and a cycle over the registered handlers starts.
C6_DifferentStep ==
  (IsGroupUpdate /\ FieldDiffers(val[lastOp'.sig], lastOp'.arg.obj))
    => /\ val'[lastOp'.sig] = lastOp'.arg.obj
       /\ Len(stack') = Len(stack) + 1
       /\ stack'[Len(stack')].value = lastOp'.arg.obj
       /\ stack'[Len(stack')].start = handlers[lastOp'.sig]

\* When the cycle is over every registered handler got exactly one call, with
\* a value structurally equal to o.
C6_OneCallEach ==
  (CycleOver /\ IsGroup(Top.sig))
    => \A n \in 1..Len(Top.start) :
         StillRegistered(Top.sig, Top.start[n])
           => /\ Count(Top.calls, Top.start[n].reg) = 1
              /\ \A c \in 1..Len(Top.calls) :
                   Top.calls[c].reg = Top.start[n].reg => Top.calls[c].v = Top.value

\* C6: GroupSignal.update(o) with fields equal to the current ones notifies
\* nobody and leaves get() as it is; with a differing field it notifies every
\* registered handler exactly once with a value structurally equal to o, and
\* get() structurally equals o.
C6_Original ==
  [][C6_EqualStep /\ C6_DifferentStep]_vars /\ []C6_OneCallEach

\* ------------------------------------------------------------------ C7
\* C7: GroupSignal.update(null) and GroupSignal.update(<a number>) raise an
\* error and change neither the value nor the handler array, and start no
\* cycle (no handler is called).
C7_RejectsNonObject ==
  [][(/\ IsCall("update")
      /\ IsGroup(lastOp'.sig)
      /\ lastOp'.arg.tag \in {"null", "number"})
       => (lastOp'.err /\ val' = val /\ stack' = stack /\ handlers' = handlers)]_vars

\* update(null) was rejected on a GroupSignal with a handler, after a change.
C7_Witness ==
  /\ lastOp.op = "update"
  /\ lastOp.sig = "g"
  /\ lastOp.arg.tag = "null"
  /\ lastOp.err
  /\ Len(handlers["g"]) >= 1
  /\ val["g"] # InitObj

\* ------------------------------------------------------------------ C9
\* The derived group signal holds an object with the fields of fn(source value).
C9_InSync == (fnOf # NoFn /\ NoUpdateRunning) => val["u"] = FnApply(fnOf, val["g"])

\* A cycle of the derived signal calls each of its handlers once with the value.
C9_DerivedNotifies ==
  (CycleOver /\ Top.sig = "u")
    => \A n \in 1..Len(Top.start) :
         StillRegistered("u", Top.start[n])
           => /\ Count(Top.calls, Top.start[n].reg) = 1
              /\ \A c \in 1..Len(Top.calls) :
                   Top.calls[c].reg = Top.start[n].reg => Top.calls[c].v = Top.value

\* C9: for u = g.map(fn), whenever no update is in progress u.get() has the
\* fields and field values of fn(g.get()), for every fn, and the handlers of u
\* are called once with that value on each change.
C9_Original == C9_InSync /\ C9_DerivedNotifies

\* ----------------------------------------------------------------- C11
\* The calls of one registration in a cycle all carry the value of the cycle.
CalledWithValue(f, r) ==
  \A c \in 1..Len(f.calls) : f.calls[c].reg = r => f.calls[c].v = f.value

\* C11: when a cycle of update is over, each handler that was registered when
\* it began and was not removed during it has been called exactly once with
\* the new value, in registration order, also when handlers called
\* unsubscribe functions during the cycle.
C11_Original ==
  CycleOver
    => /\ \A n \in 1..Len(Top.start) :
            StillRegistered(Top.sig, Top.start[n])
              => /\ Count(Top.calls, Top.start[n].reg) = 1
                 /\ CalledWithValue(Top, Top.start[n].reg)
       /\ \A a, b \in 1..Len(Top.calls) :
            a < b => Top.calls[a].reg < Top.calls[b].reg

\* ----------------------------------------------------------------- C12
\* The number of calls a cycle has made to the handler function cb, and the
\* number of times cb was in the handler array when the cycle began.
CallsOf(f, cb) == Cardinality({c \in 1..Len(f.calls) : f.calls[c].cb = cb})
StartOf(f, cb) == Cardinality({n \in 1..Len(f.start) : f.start[n].cb = cb})

\* C12: a cycle of update calls only handlers that were registered when it
\* began: a handler function is called at most as often as it was registered
\* at the beginning, so a handler registered by a callback during the cycle
\* is not called by that cycle, whatever else is registered or unsubscribed
\* meanwhile.
C12_Original ==
  \A n \in 1..Len(stack) :
    stack[n].kind = "emit"
      => \A cb \in CBs : CallsOf(stack[n], cb) <= StartOf(stack[n], cb)

\* ----------------------------------------------------------------- C13
\* C13: when a handler throws during a cycle, every other handler that was
\* registered when the cycle began (and still is) has been or is still called
\* in that cycle: at the moment the exception leaves update, none of them is
\* left without its call.
C13_Original ==
  (lastOp.op = "throw" /\ lastOp.arg.kind = "emit")
    => \A n \in 1..Len(lastOp.arg.start) :
         StillRegistered(lastOp.sig, lastOp.arg.start[n])
           => Count(lastOp.arg.calls, lastOp.arg.start[n].reg) >= 1

\* ----------------------------------------------------------------- C14
\* The cycle on top was started by a handler of a cycle of the same signal
\* that is still being delivered.
NestedCycle ==
  /\ Len(stack) >= 2
  /\ Top.kind = "emit"
  /\ stack[Len(stack) - 1].kind = "emit"
  /\ stack[Len(stack) - 1].sig = Top.sig
  /\ stack[Len(stack) - 1].run = "user"

\* While a cycle runs, every cycle below it waits inside one of its handlers:
\* no outer forEach moves before the inner update has returned.
C14_OuterWaits ==
  \A n \in 1..(Len(stack) - 1) : stack[n].kind = "emit" => stack[n].run # "no"

\* When the nested update is about to return, its cycle is complete: every
\* handler registered when it began (and still registered) was called once,
\* with w.
C14_NestedComplete ==
  (NestedCycle /\ CycleOver)
    => \A n \in 1..Len(Top.start) :
         StillRegistered(Top.sig, Top.start[n])
           => /\ Count(Top.calls, Top.start[n].reg) = 1
              /\ CalledWithValue(Top, Top.start[n].reg)

\* C14: update(w) called by a handler during the delivery of v runs a complete
\* cycle (every registered handler called with w) before the outer cycle
\* calls its next handler; nothing is deferred.
C14_Original == C14_OuterWaits /\ C14_NestedComplete

\* ----------------------------------------------------------------- C15
\* The handler functions of an array, in its order.
CbsOf(hs) == [n \in 1..Len(hs) |-> hs[n].cb]

\* The array without the entry that registration r added.
WithoutReg(hs, r) ==
  LET keep[k \in 0..Len(hs)] ==
        IF k = 0 THEN <<>>
        ELSE IF hs[k].reg = r THEN keep[k - 1]
        ELSE Append(keep[k - 1], hs[k])
  IN  keep[Len(hs)]

\* No unsubscribe function of the same handler function on the same signal
\* was called so far: the entry registration r added is still in the array.
FirstUnsubscribeOfCb(r) ==
  \A q \in unsubCalled : regs[q].sig # regs[r].sig \/ regs[q].cb # regs[r].cb

\* C15: a handler function may be registered several times; the first call of
\* an unsubscribe function takes out of the array exactly the occurrence its
\* own onChange / subscribe added, so the other registrations, those of the
\* same function included, keep their places in the order of delivery.
C15_Original ==
  [][(IsCall("unsubscribe") /\ FirstUnsubscribeOfCb(lastOp'.arg))
       => CbsOf(handlers'[lastOp'.sig])
            = CbsOf(WithoutReg(handlers[lastOp'.sig], lastOp'.arg))]_vars

\* ----------------------------------------------------------------- C16
\* Every call goes to a handler function that still has a registration whose
\* unsubscribe function was not called.
C16_NotCalledOnceUnsubscribed ==
  lastOp.op = "invoke"
    => \E q \in 1..Len(regs) :
         /\ regs[q].sig = lastOp.sig
         /\ regs[q].cb = regs[lastOp.arg].cb
         /\ q \notin unsubCalled

\* The entry registration r added was in the handler array when the cycle began.
InStart(f, r) == \E n \in 1..Len(f.start) : f.start[n].reg = r

\* Every registration of cb made before the last one of the cycle's start was
\* in the array when the cycle began: no occurrence of cb had been removed
\* before, so an unsubscribe function of cb that was called, was called
\* during the cycle.
AllInStart(f, cb) ==
  \A q \in 1..Len(regs) :
    (/\ regs[q].sig = f.sig
     /\ regs[q].cb = cb
     /\ \E n \in 1..Len(f.start) : q <= f.start[n].reg)
      => InStart(f, q)

\* The occurrences of cb of the cycle's start that were unsubscribed before
\* they were called.
UnsubscribedUnreached(f, cb) ==
  Cardinality({n \in 1..Len(f.start) :
                 /\ f.start[n].cb = cb
                 /\ f.start[n].reg \in unsubCalled
                 /\ Count(f.calls, f.start[n].reg) = 0})

\* C16: a handler that is unsubscribed during a cycle before its turn is not
\* called in the rest of that cycle: when forEach calls the function cb, the
\* calls of cb in the cycle do not exceed the occurrences of cb at the
\* beginning less those unsubscribed before they were reached.
C16_Original ==
  [][(/\ lastOp'.op = "invoke"
      /\ stack # <<>>
      /\ stack' # stack
      /\ Top.kind = "emit"
      /\ InStart(Top, lastOp'.arg)
      /\ AllInStart(Top, regs[lastOp'.arg].cb))
       => CallsOf(Top, regs[lastOp'.arg].cb) + 1
            <= StartOf(Top, regs[lastOp'.arg].cb)
                 - UnsubscribedUnreached(Top, regs[lastOp'.arg].cb)]_vars

\* ----------------------------------------------------------------- C17
\* Every key o has holds the same value in the current value of the signal.
KeysOfArgEqual(sig, o) == \A k \in Keys : o[k] # Absent => val[sig][k] = o[k]

\* C17: GroupSignal.update(o) looks at the keys of o only: when each of them
\* holds the same value in the current value, nothing is stored and no cycle
\* starts (no handler is called), also when the current value has keys that o
\* lacks and when o has no key at all.
C17_OnlyKeysOfArg ==
  [][(IsGroupUpdate /\ KeysOfArgEqual(lastOp'.sig, lastOp'.arg.obj))
       => (val' = val /\ stack' = stack /\ handlers' = handlers)]_vars

\* update(o) has returned at once for an o that lacks a key of the current
\* value, with a handler registered.
C17_Witness ==
  /\ lastOp.op = "update"
  /\ lastOp.sig = "g"
  /\ lastOp.arg.tag = "object"
  /\ stack = <<>>
  /\ Len(handlers["g"]) >= 1
  /\ KeysOfArgEqual("g", lastOp.arg.obj)
  /\ \E k \in Keys : lastOp.arg.obj[k] = Absent /\ val["g"][k] # Absent
  /\ \E k \in Keys : lastOp.arg.obj[k] # Absent

\* ----------------------------------------------------------------- C18
\* update(o) that finds a difference stores an object that is not o and has
\* the fields of o.
C18_StoresCopy ==
  (IsGroupUpdate /\ lastOp'.arg.ref = "o"
     /\ FieldDiffers(val[lastOp'.sig], lastOp'.arg.obj))
    => /\ heap'.ref[lastOp'.sig] # "o"
       /\ val'[lastOp'.sig] = lastOp'.arg.obj

\* An assignment to a field of o leaves get() as it is.
C18_MutationUnseen == lastOp'.op = "mutate" => val' = val

\* C18: when GroupSignal.update(o) finds a difference, the value stored (which
\* is what get() returns and what the handlers are given) is a new object with
\* the fields of o, never o itself: assigning to a field of o later does not
\* change get().
C18_FreshCopy ==
  [][C18_StoresCopy /\ C18_MutationUnseen]_vars /\ [](heap.ref["g"] # "o")

\* update(o) has stored a copy, a handler was given it, and a field of o was
\* assigned to afterwards: get() and o differ.
C18_Witness ==
  /\ lastOp.op = "mutate"
  /\ heap.ref["g"] = "copy"
  /\ val["g"] # heap.o
  /\ stack # <<>>
  /\ Top.kind = "emit"
  /\ Len(Top.calls) >= 1

\* ----------------------------------------------------------------- C19
\* C19: for t = s.map(fn), the delivery of a change of s from a to b with
\* fn(a) = fn(b) leaves t as it is: when the closure of map is called in the
\* cycle of that change, t.get() stays and no cycle of t starts (no handler
\* of t is called).
C19_Original ==
  [][(/\ lastOp'.op = "invoke"
      /\ stack # <<>>
      /\ stack' # stack
      /\ Top.kind = "emit"
      /\ Top.sig = "s"
      /\ regs[lastOp'.arg].kind = "map"
      /\ FnApply(fnOf, Top.old) = FnApply(fnOf, Top.value))
       => (val'["t"] = val["t"] /\ Len(stack') = Len(stack))]_vars

\* ----------------------------------------------------------------- C20
\* The step is a call of get, onChange, an unsubscribe function or map.
QuietCall ==
  /\ lastOp'.op \in {"get", "onChange", "unsubscribe", "map"}
  /\ ops' = ops + 1

\* The step calls no handler: no frame is pushed and no frame records a call
\* or starts running a handler.
NoHandlerCalled ==
  /\ Len(stack') = Len(stack)
  /\ \A n \in 1..Len(stack) :
       /\ stack'[n].calls = stack[n].calls
       /\ stack'[n].run = stack[n].run
       /\ stack'[n].i = stack[n].i

\* The step leaves get() of every signal as it was; map gives the signal it
\* creates its first value.
ValuesKept ==
  /\ heap' = heap
  /\ \A sig \in AllSigs :
       IF lastOp'.op = "map" /\ sig = Derived(lastOp'.sig)
       THEN val'[sig] = FnApply(lastOp'.arg, val[lastOp'.sig])
       ELSE val'[sig] = val[sig]

\* The step of subscribe calls its own handler with the current value and no
\* other handler.
OwnHandlerCalled ==
  /\ Len(stack') = Len(stack) + 1
  /\ \A n \in 1..Len(stack) :
       /\ stack'[n].calls = stack[n].calls
       /\ stack'[n].run = stack[n].run
       /\ stack'[n].i = stack[n].i
  /\ stack'[Len(stack')].kind = "sub"
  /\ stack'[Len(stack')].run = "user"
  /\ stack'[Len(stack')].cb = lastOp'.arg
  /\ stack'[Len(stack')].calls =
       <<[cb |-> lastOp'.arg, reg |-> 0, v |-> val[lastOp'.sig]]>>

\* The step changes a stored value from within update: the program or a
\* handler called update, or the closure of map called update on the derived
\* signal.
InsideUpdate ==
  IF lastOp'.op = "invoke"
  THEN /\ regs[lastOp'.arg].kind = "map"
       /\ \A sig \in AllSigs : val'[sig] # val[sig] => sig = Derived(lastOp'.sig)
  ELSE /\ lastOp'.op = "update"
       /\ \A sig \in AllSigs : val'[sig] # val[sig] => sig = lastOp'.sig

\* C20: the stored value of a signal changes only inside update.  A call of
\* get, onChange, an unsubscribe function or map leaves get() of every signal
\* unchanged and calls no handler; subscribe leaves get() unchanged and calls
\* its own handler, once, with the current value, and no other handler, also
\* when it registers the handler afterwards.
C20_OnlyUpdateChanges ==
  /\ [][/\ QuietCall => (ValuesKept /\ NoHandlerCalled)
        /\ IsCall("subscribe") => (val' = val /\ heap' = heap /\ OwnHandlerCalled)
        /\ lastOp'.op = "subscribed" =>
             (val' = val /\ heap' = heap
              /\ stack' = SubSeq(stack, 1, Len(stack) - 1))
        /\ (val' # val /\ lastOp'.op # "map") => InsideUpdate]_vars
  /\ [](\A n \in 1..Len(stack) :
          stack[n].kind = "sub" => Len(stack[n].calls) = 1)

\* subscribe(cb) was called on a signal that another handler is registered
\* on and whose value was updated before: cb alone is running.
C20_Witness ==
  /\ lastOp.op = "subscribe"
  /\ stack # <<>>
  /\ Top.kind = "sub"
  /\ handlers[Top.sig] # <<>>
  /\ \A n \in 1..Len(handlers[Top.sig]) : handlers[Top.sig][n].cb # Top.cb
  /\ val[Top.sig] # (IF IsGroup(Top.sig) THEN InitObj ELSE 0)
  /\ Top.calls = <<[cb |-> Top.cb, reg |-> 0, v |-> val[Top.sig]]>>

\* ----------------------------------------------------------------- C21
\* Every call a cycle has made so far handed the handler the value whose
\* update started the cycle.
SameValueInCycle(f) ==
  \A c \in 1..Len(f.calls) : f.calls[c].v = f.value

\* C21: within one delivery cycle every handler is called with the same
\* value, the value whose update started the cycle, for Signal and
\* GroupSignal alike, also when a handler calls update on the same signal
\* during the cycle.
C21_Original ==
  \A n \in 1..Len(stack) :
    stack[n].kind = "emit" => SameValueInCycle(stack[n])

\* ----------------------------------------------------------------- C22
\* The outermost call of update on s, which changed the value, has run its
\* cycle and is about to return; no unsubscribe function was called during
\* the cycle.
OutermostReturns ==
  /\ Len(stack) = 1
  /\ Finished(Top)
  /\ Top.sig = "s"
  /\ ~Top.unsubbed

\* C22: when an outermost call of update on a Signal returns after changing
\* the value, the value each handler still registered was called with last
\* is get(), also when handlers called update during the cycle.
C22_Original ==
  OutermostReturns
    => \A n \in 1..Len(Top.start) :
         StillRegistered("s", Top.start[n])
           => /\ seen["s"][Top.start[n].cb].has
              /\ seen["s"][Top.start[n].cb].v = val["s"]

====
